---- MODULE Spec2Model ----
(***************************************************************************)
(* Model of scripts/postinstall.cpp: the postinstall binary downloader.    *)
(* One process runs main() step by step; the filesystem persists across    *)
(* runs, everything else is local to a run.  Return codes of libcurl,      *)
(* libarchive and the operating system are inputs chosen with \E.          *)
(***************************************************************************)
EXTENDS Integers, Sequences, FiniteSets, TLC

\* ---------------------------------------------------------------- bounds
MaxRuns == 2          \* installer runs in one behaviour
MaxEntries == 2       \* archive entries one extraction reads
MaxBlocks == 1        \* data blocks one entry carries
MaxChunks == 1        \* chunks one transfer delivers to the write callback
MaxCalls == 3         \* write-callback invocations of one transfer
MaxLines == 2         \* lines of a package.json

\* ------------------------------------------------ configuration constants
REPO == "openSVM/vibedev"
BINARY_NAME == "claudev"
FALLBACK_VERSION == "0.5.0"

\* __FILE__ as the build recorded it
FILE == <<"/", "pkg", "scripts", "postinstall.cpp">>

\* The predefined macros of the build: one operating system, one CPU.
OsMacros == {"_WIN32", "__APPLE__", "__linux__", "other"}
ArchMacros == {"__x86_64__", "__aarch64__", "other"}

\* ---------------------------------------------------------------- paths
\* A path is its sequence of components; an absolute path starts with "/".
is_absolute(p) == Len(p) > 0 /\ p[1] = "/"

\* fs::path::parent_path
parent_path(p) == IF Len(p) <= 1 THEN p ELSE SubSeq(p, 1, Len(p) - 1)

\* fs::path operator/ : an absolute right operand replaces the left one
PathJoin(lhs, rhs) == IF is_absolute(rhs) THEN rhs ELSE lhs \o rhs

\* The file the operating system opens for a path: ".." steps to the
\* parent, and the parent of the root is the root.
RECURSIVE ResolveFrom(_, _)
ResolveFrom(acc, p) ==
    IF p = <<>> THEN acc
    ELSE IF Head(p) = ".."
         THEN ResolveFrom(IF Len(acc) > 1 THEN parent_path(acc) ELSE acc, Tail(p))
         ELSE ResolveFrom(Append(acc, Head(p)), Tail(p))

Resolve(p) == ResolveFrom(<<>>, p)

\* p names dir or something below it
IsWithin(p, dir) == Len(p) >= Len(dir) /\ SubSeq(p, 1, Len(dir)) = dir

\* ------------------------------------------------------------- Platform
EmptyPlatform == [os |-> "", arch |-> "", target_triple |-> "", archive_ext |-> ""]

DetectOs(osMacro) ==
    CASE osMacro = "_WIN32" -> "win32"
      [] osMacro = "__APPLE__" -> "darwin"
      [] osMacro = "__linux__" -> "linux"
      [] OTHER -> "unknown"

DetectExt(osMacro) ==
    CASE osMacro = "_WIN32" -> "zip"
      [] osMacro = "__APPLE__" -> "tar.gz"
      [] osMacro = "__linux__" -> "tar.gz"
      [] OTHER -> ""

DetectArch(archMacro) ==
    CASE archMacro = "__x86_64__" -> "x64"
      [] archMacro = "__aarch64__" -> "arm64"
      [] OTHER -> "unknown"

\* Mutant of TargetTriple: the arm64 row of darwin copied from the x64 row
TargetTriple_CopiedRow(os, arch) ==
    IF os = "darwin" /\ arch = "x64" THEN "x86_64-apple-darwin"
    ELSE IF os = "darwin" /\ arch = "arm64" THEN "x86_64-apple-darwin"
    ELSE IF os = "linux" /\ arch = "x64" THEN "x86_64-unknown-linux-gnu"
    ELSE IF os = "win32" /\ arch = "x64" THEN "x86_64-pc-windows-msvc"
    ELSE ""

TargetTriple(os, arch) ==
    IF os = "darwin" /\ arch = "x64" THEN "x86_64-apple-darwin"
    ELSE IF os = "darwin" /\ arch = "arm64" THEN "aarch64-apple-darwin"
    ELSE IF os = "linux" /\ arch = "x64" THEN "x86_64-unknown-linux-gnu"
    ELSE IF os = "win32" /\ arch = "x64" THEN "x86_64-pc-windows-msvc"
    ELSE ""

detect(osMacro, archMacro) ==
    [os |-> DetectOs(osMacro),
     arch |-> DetectArch(archMacro),
     target_triple |-> TargetTriple(DetectOs(osMacro), DetectArch(archMacro)),
     archive_ext |-> DetectExt(osMacro)]

\* Mutant of is_supported: support inferred from the operating system alone
is_supported_ByOs(p) == p.os # "unknown"

is_supported(p) == p.target_triple # ""

get_binary_name(p) == IF p.os = "win32" THEN BINARY_NAME \o ".exe" ELSE BINARY_NAME

\* ------------------------------------------------------ paths of main()
script_dir == parent_path(FILE)
bin_dir == PathJoin(parent_path(script_dir), <<"bin">>)
binary_path(p) == PathJoin(bin_dir, <<get_binary_name(p)>>)

\* Mutant of BuildUrlString: the "v" in front of the version is missing
BuildUrlString_NoV(ver, p) ==
    "https://github.com/" \o REPO \o "/releases/download/" \o ver \o "/"
        \o BINARY_NAME \o "-" \o p.target_triple \o "." \o p.archive_ext

\* ------------------------------------------------------------ the URL
BuildUrlString(ver, p) ==
    "https://github.com/" \o REPO \o "/releases/download/v" \o ver \o "/"
        \o BINARY_NAME \o "-" \o p.target_triple \o "." \o p.archive_ext

\* ------------------------------------------------- get_package_version()
\* A line of package.json is its sequence of characters; positions count
\* from 0 as in std::string.
Q == "\""

\* std::string::npos. Only npos + 1 and npos - start are computed with it:
\* as -1 the first gives the 0 that the unsigned sum wraps to, and the second
\* a negative number, standing for the huge count the unsigned difference is.
NPOS == -1

KEY == <<Q, "v", "e", "r", "s", "i", "o", "n", Q>>

\*   "version": "1.2.3",
LineVersionPretty ==
    <<" ", " ", Q, "v", "e", "r", "s", "i", "o", "n", Q, ":", " ", Q, "1", ".", "2", ".", "3", Q, ",">>

\* "version":"2.0.0"
LineVersionPlain ==
    <<Q, "v", "e", "r", "s", "i", "o", "n", Q, ":", Q, "2", ".", "0", ".", "0", Q>>

\*   "name": "claudev",
LineName ==
    <<" ", " ", Q, "n", "a", "m", "e", Q, ":", " ", Q, "c", "l", "a", "u", "d", "e", "v", Q, ",">>

\* {"name":"x","version":"1.2.3"}
LineMinified ==
    <<"{", Q, "n", "a", "m", "e", Q, ":", Q, "x", Q, ",", Q, "v", "e", "r", "s", "i", "o", "n", Q, ":", Q, "1", ".", "2", ".", "3", Q, "}">>

\*     "version",   (an element of a keywords array)
LineKeyword ==
    <<" ", " ", " ", " ", Q, "v", "e", "r", "s", "i", "o", "n", Q, ",">>

\* "version": 1
LineUnquoted ==
    <<Q, "v", "e", "r", "s", "i", "o", "n", Q, ":", " ", "1">>

\* {
LineBrace ==
    <<"{">>

PackageLines ==
    { LineVersionPretty, LineVersionPlain, LineName, LineMinified, LineKeyword,
      LineUnquoted, LineBrace }

\* std::string::find(str, pos)
FindSeq(line, pat, pos) ==
    IF pos = NPOS THEN NPOS
    ELSE LET hits == { i \in pos..(Len(line) - Len(pat)) :
                          SubSeq(line, i + 1, i + Len(pat)) = pat }
         IN IF hits = {} THEN NPOS
            ELSE CHOOSE i \in hits : \A j \in hits : i <= j

\* std::string::find(ch, pos)
FindChar(line, ch, pos) == FindSeq(line, <<ch>>, pos)

\* std::string::substr(pos, count), for pos <= size
Substr(line, pos, count) ==
    LET rest == Len(line) - pos
        n == IF count < 0 \/ count > rest THEN rest ELSE count
    IN SubSeq(line, pos + 1, pos + n)

\* The std::string of a sequence of characters
RECURSIVE CharsToString(_)
CharsToString(cs) == IF cs = <<>> THEN "" ELSE Head(cs) \o CharsToString(Tail(cs))

\* lines 280-286: the scan, line by line
RECURSIVE ScanLines(_)
ScanLines(lines) ==
    IF lines = <<>> THEN FALLBACK_VERSION
    ELSE LET line == Head(lines) IN
         IF FindSeq(line, KEY, 0) # NPOS
         THEN LET start == FindChar(line, Q, FindChar(line, ":", 0)) + 1
                  end == FindChar(line, Q, start)
              IN CharsToString(Substr(line, start, end - start))
         ELSE ScanLines(Tail(lines))

\* lines 271-289; a file is [open: the ifstream opened, lines: its lines]
get_package_version(file) ==
    IF ~file.open THEN FALLBACK_VERSION ELSE ScanLines(file.lines)

MissingFile == [open |-> FALSE, lines |-> <<>>]

\* The package.json files with up to MaxLines lines
RECURSIVE LineSeqs(_)
LineSeqs(n) ==
    IF n = 0 THEN { <<>> }
    ELSE LineSeqs(n - 1) \cup
         { Append(ls, l) : ls \in { x \in LineSeqs(n - 1) : Len(x) = n - 1 }, l \in PackageLines }

AllPackageFiles == {MissingFile} \cup { [open |-> TRUE, lines |-> ls] : ls \in LineSeqs(MaxLines) }

\* The two package.json files the installer runs are checked with
MainPackageFiles == { MissingFile, [open |-> TRUE, lines |-> <<LineVersionPretty>>] }

\* ------------------------------------------------------ library results
CurlCodes == {"CURLE_OK", "CURLE_OPERATION_TIMEDOUT", "CURLE_TOO_MANY_REDIRECTS"}
HttpCodes == {200, 204, 404}
ReadHeaderCodes == {"ARCHIVE_OK", "ARCHIVE_EOF", "ARCHIVE_WARN", "ARCHIVE_FATAL"}
WriteCodes == {"ARCHIVE_OK", "ARCHIVE_WARN", "ARCHIVE_FATAL"}
ReadDataCodes == {"ARCHIVE_OK", "ARCHIVE_EOF", "ARCHIVE_FATAL"}
WriteDataCodes == {"ARCHIVE_OK", "ARCHIVE_FATAL"}

\* Pathnames an archive entry can store
EntryNames ==
    { <<"claudev">>, <<"claudev.exe">>, <<"..", "..", "escape">>, <<"/", "etc", "abs">> }

NoResult == [has_value |-> FALSE, size |-> 0]

\* ------------------------------------------------------------------ state
VARIABLES
    pc,               \* position of the run in main() / extract_archive()
    osMacro,          \* the build's operating-system macro
    archMacro,        \* the build's CPU macro
    packageJson,      \* filesystem: the package.json next to the script
    data,             \* DownloadBuffer: data, as the chunks inserted so far
    last_reported_mb, \* DownloadBuffer: last_reported_mb
    progress,         \* std::cout: the megabyte counts printed by the callback
    returned,         \* what the last write_callback call returned
    calls,            \* write_callback calls of the transfer so far
    platform,         \* main: platform
    version,          \* main: version
    url,              \* main: url
    download_result,  \* main: download_result (optional byte buffer)
    ec,               \* main: ec is set
    exitCode,         \* what main returned; -1 while it runs
    binDir,           \* filesystem: "absent", "dir", or "file" at bin_dir
    files,            \* filesystem: the resolved paths of existing files
    curlInits,        \* curl_global_init calls of this run
    curlCleanups,     \* curl_global_cleanup calls of this run
    curlEasy,         \* download_file: the easy handle
    res,              \* download_file: res
    response_code,    \* download_file: response_code
    bufferLen,        \* download_file: chunks in buffer.data
    a,                \* extract_archive: the reader handle
    ext,              \* extract_archive: the disk-writer handle
    entry,            \* extract_archive: pathname set on the current entry
    r,                \* extract_archive: r
    success,          \* extract_archive: success
    nEntries,         \* entries whose header was read so far
    nBlocks,          \* data blocks of the current entry copied so far
    extractResult,    \* "none", or what extract_archive returned
    entryOps,         \* history: the disk-writer calls made for the current entry
    runs,             \* runs started so far
    visited,          \* history: pipeline states this run entered, in order
    fsAtStart,        \* history: the filesystem as the run found it
    binaryAtFirstStart, \* history: binary_path existed before the first run
    priorEnds,        \* history: the pipeline states earlier runs ended in
    chmodCalled,      \* history: chmod was called in this run
    warned,           \* history: the permissions warning was printed in this run
    exFirstError      \* history: stage of the first library error while extracting

\* The DownloadBuffer of one transfer; SpecCallback steps it call by call,
\* the pipeline keeps only the outcome (bufferLen).
cbVars == <<data, last_reported_mb, progress, returned, calls>>
envVars == <<osMacro, archMacro, packageJson, cbVars>>
mainVars == <<platform, version, url, download_result, ec>>
fsVars == <<binDir, files>>
dlVars == <<curlEasy, res, response_code, bufferLen>>
exVars == <<a, ext, entry, r, success, nEntries, nBlocks, extractResult, exFirstError,
            entryOps>>
acrossVars == <<binaryAtFirstStart, priorEnds>>
histVars == <<runs, fsAtStart, chmodCalled, warned, acrossVars>>
vars == <<pc, exitCode, curlInits, curlCleanups, visited,
          envVars, mainVars, fsVars, dlVars, exVars, histVars>>

\* fs::exists(binary_path)
exists(p) == p \in files

\* lines 120-121 and 148: DownloadBuffer buffer, before the transfer
FreshBuffer ==
    /\ data = <<>>
    /\ last_reported_mb = 0
    /\ progress = <<>>
    /\ returned = 0
    /\ calls = 0

\* The locals of a run before main() has touched them
FreshRun ==
    /\ pc = "Start"
    /\ platform = EmptyPlatform
    /\ version = ""
    /\ url = ""
    /\ download_result = NoResult
    /\ ec = FALSE
    /\ exitCode = -1
    /\ curlInits = 0
    /\ curlCleanups = 0
    /\ curlEasy = "none"
    /\ res = "none"
    /\ response_code = 0
    /\ bufferLen = 0
    /\ a = "unset"
    /\ ext = "unset"
    /\ entry = <<>>
    /\ r = "none"
    /\ success = TRUE
    /\ nEntries = 0
    /\ nBlocks = 0
    /\ extractResult = "none"
    /\ entryOps = <<>>
    /\ visited = <<>>
    /\ chmodCalled = FALSE
    /\ warned = FALSE
    /\ exFirstError = "none"

\* The same locals, for the process of the next run
ResetRun ==
    /\ pc' = "Start"
    /\ platform' = EmptyPlatform
    /\ version' = ""
    /\ url' = ""
    /\ download_result' = NoResult
    /\ ec' = FALSE
    /\ exitCode' = -1
    /\ curlInits' = 0
    /\ curlCleanups' = 0
    /\ curlEasy' = "none"
    /\ res' = "none"
    /\ response_code' = 0
    /\ bufferLen' = 0
    /\ a' = "unset"
    /\ ext' = "unset"
    /\ entry' = <<>>
    /\ r' = "none"
    /\ success' = TRUE
    /\ nEntries' = 0
    /\ nBlocks' = 0
    /\ extractResult' = "none"
    /\ entryOps' = <<>>
    /\ visited' = <<>>
    /\ chmodCalled' = FALSE
    /\ warned' = FALSE
    /\ exFirstError' = "none"

Init ==
    /\ osMacro \in OsMacros
    /\ archMacro \in ArchMacros
    /\ packageJson \in MainPackageFiles
    /\ FreshBuffer
    /\ binDir \in {"absent", "dir", "file"}
    /\ files \in IF binDir = "dir"
                 THEN { {}, {binary_path(detect(osMacro, archMacro))} }
                 ELSE { {} }
    /\ runs = 1
    /\ fsAtStart = [binDir |-> binDir, files |-> files]
    /\ binaryAtFirstStart = exists(binary_path(detect(osMacro, archMacro)))
    /\ priorEnds = {}
    /\ FreshRun

\* Mutant of Terminate: a return without curl_global_cleanup
Terminate_NoCleanup(code) ==
    /\ pc' = "exited"
    /\ exitCode' = code
    /\ curlCleanups' = curlCleanups

\* curl_global_cleanup(); return code;
Terminate(code) ==
    /\ pc' = "exited"
    /\ exitCode' = code
    /\ curlCleanups' = curlCleanups + 1

\* ---------------------------------------------------------------- main()
\* lines 292-295: banner, curl_global_init
Start ==
    /\ pc = "Start"
    /\ curlInits' = curlInits + 1
    /\ pc' = "ResolvePlatform"
    /\ UNCHANGED <<exitCode, curlCleanups, visited,
                   envVars, mainVars, fsVars, dlVars, exVars, histVars>>

\* Mutant of ResolvePlatform: the unsupported-platform return is missing
ResolvePlatform_NoReturn ==
    /\ pc = "ResolvePlatform"
    /\ platform' = detect(osMacro, archMacro)
    /\ visited' = Append(visited, "ResolvePlatform")
    /\ pc' = "CheckExisting"
    /\ UNCHANGED <<exitCode, curlInits, curlCleanups, version, url, download_result, ec,
                   envVars, fsVars, dlVars, exVars, histVars>>

\* lines 297-305: Platform::detect, the unsupported-platform return
ResolvePlatform ==
    /\ pc = "ResolvePlatform"
    /\ platform' = detect(osMacro, archMacro)
    /\ visited' = Append(visited, "ResolvePlatform")
    /\ IF ~is_supported(platform')
       THEN Terminate(0)
       ELSE pc' = "CheckExisting" /\ UNCHANGED <<exitCode, curlCleanups>>
    /\ UNCHANGED <<curlInits, version, url, download_result, ec,
                   envVars, fsVars, dlVars, exVars, histVars>>

\* Mutant of CheckExisting: the existing-binary return is missing
CheckExisting_NoGate ==
    /\ pc = "CheckExisting"
    /\ visited' = Append(visited, "CheckExisting")
    /\ pc' = "BuildUrl"
    /\ UNCHANGED <<exitCode, curlInits, curlCleanups,
                   envVars, mainVars, fsVars, dlVars, exVars, histVars>>

\* Mutant of CheckExisting: the gate looks at the bin directory, not the binary
CheckExisting_ByDirectory ==
    /\ pc = "CheckExisting"
    /\ visited' = Append(visited, "CheckExisting")
    /\ IF binDir = "dir"
       THEN Terminate(0)
       ELSE pc' = "BuildUrl" /\ UNCHANGED <<exitCode, curlCleanups>>
    /\ UNCHANGED <<curlInits, envVars, mainVars, fsVars, dlVars, exVars, histVars>>

\* lines 307-317: the paths, the existing-binary return
CheckExisting ==
    /\ pc = "CheckExisting"
    /\ visited' = Append(visited, "CheckExisting")
    /\ IF exists(binary_path(platform))
       THEN Terminate(0)
       ELSE pc' = "BuildUrl" /\ UNCHANGED <<exitCode, curlCleanups>>
    /\ UNCHANGED <<curlInits, envVars, mainVars, fsVars, dlVars, exVars, histVars>>

\* lines 319-328: get_package_version, the URL
BuildUrl ==
    /\ pc = "BuildUrl"
    /\ visited' = Append(visited, "BuildUrl")
    /\ version' = get_package_version(packageJson)
    /\ url' = BuildUrlString(version', platform)
    /\ pc' = "Download"
    /\ UNCHANGED <<exitCode, curlInits, curlCleanups, platform, download_result, ec,
                   envVars, fsVars, dlVars, exVars, histVars>>

\* Mutant of DownloadValue: the status check is missing
DownloadValue_NoStatusCheck(initOk, code, http, n) ==
    IF ~initOk THEN NoResult
    ELSE IF code # "CURLE_OK" THEN NoResult
    ELSE [has_value |-> TRUE, size |-> n]

\* Mutant of DownloadValue: after a transport error the bytes received so far
\* are returned
DownloadValue_PartialOnError(initOk, code, http, n) ==
    IF ~initOk THEN NoResult
    ELSE IF code # "CURLE_OK" THEN [has_value |-> n > 0, size |-> n]
    ELSE IF http # 200 THEN NoResult
    ELSE [has_value |-> TRUE, size |-> n]

\* download_file, lines 142-178: what it returns for one transfer.
\* initOk: curl_easy_init gave a handle; code: curl_easy_perform's result;
\* http: the final status; n: chunks the write callback stored.
DownloadValue(initOk, code, http, n) ==
    IF ~initOk THEN NoResult
    ELSE IF code # "CURLE_OK" THEN NoResult
    ELSE IF http # 200 THEN NoResult
    ELSE [has_value |-> TRUE, size |-> n]

\* lines 330-337: download_file(url), the download-failure return
Download ==
    /\ pc = "Download"
    /\ visited' = Append(visited, "Download")
    /\ \E initOk \in BOOLEAN, code \in CurlCodes, http \in HttpCodes, n \in 0..MaxChunks :
          /\ curlEasy' = IF initOk THEN "cleaned" ELSE "none"
          /\ res' = IF initOk THEN code ELSE "none"
          /\ response_code' = IF initOk /\ code = "CURLE_OK" THEN http ELSE 0
          /\ bufferLen' = IF initOk THEN n ELSE 0
          /\ download_result' = DownloadValue(initOk, code, http, n)
    /\ IF ~download_result'.has_value
       THEN Terminate(0)
       ELSE pc' = "CreateBinDirectory" /\ UNCHANGED <<exitCode, curlCleanups>>
    /\ UNCHANGED <<curlInits, platform, version, url, ec,
                   envVars, fsVars, exVars, histVars>>

\* Mutant of CreateBinDirectory: ec is not looked at
CreateBinDirectory_IgnoreEc ==
    /\ pc = "CreateBinDirectory"
    /\ visited' = Append(visited, "CreateBinDirectory")
    /\ \E osOk \in BOOLEAN :
          /\ ec' = CASE binDir = "dir" -> FALSE
                     [] binDir = "file" -> TRUE
                     [] OTHER -> ~osOk
          /\ binDir' = IF binDir = "absent" /\ osOk THEN "dir" ELSE binDir
    /\ pc' = "Extract"
    /\ UNCHANGED <<exitCode, curlInits, curlCleanups, platform, version, url,
                   download_result, files, envVars, dlVars, exVars, histVars>>

\* lines 339-346: fs::create_directories(bin_dir, ec), the fatal return
CreateBinDirectory ==
    /\ pc = "CreateBinDirectory"
    /\ visited' = Append(visited, "CreateBinDirectory")
    /\ \E osOk \in BOOLEAN :
          /\ ec' = CASE binDir = "dir" -> FALSE
                     [] binDir = "file" -> TRUE
                     [] OTHER -> ~osOk
          /\ binDir' = IF binDir = "absent" /\ osOk THEN "dir" ELSE binDir
    /\ IF ec'
       THEN Terminate(1)
       ELSE pc' = "Extract" /\ UNCHANGED <<exitCode, curlCleanups>>
    /\ UNCHANGED <<curlInits, platform, version, url, download_result, files,
                   envVars, dlVars, exVars, histVars>>

\* ------------------------------------------------------ extract_archive()
\* main, lines 349-353: the value extract_archive returns, the fatal return
ReturnFromExtract(result) ==
    /\ extractResult' = IF result THEN "true" ELSE "false"
    /\ IF ~result
       THEN Terminate(1)
       ELSE pc' = "SetPermissions" /\ UNCHANGED <<exitCode, curlCleanups>>

\* lines 181-206: the two handles, options, archive_read_open_memory
ExtractOpen ==
    /\ pc = "Extract"
    /\ visited' = Append(visited, "Extract")
    /\ \E aOk \in BOOLEAN, extOk \in BOOLEAN, rc \in {"ARCHIVE_OK", "ARCHIVE_FATAL"} :
          IF ~aOk \/ ~extOk
          THEN /\ a' = IF aOk THEN "live" ELSE "null"
               /\ ext' = IF extOk THEN "live" ELSE "null"
               /\ r' = r
               /\ ReturnFromExtract(FALSE)
          ELSE /\ r' = rc
               /\ IF rc # "ARCHIVE_OK"
                  THEN /\ a' = "freed"
                       /\ ext' = "freed"
                       /\ ReturnFromExtract(FALSE)
                  ELSE /\ a' = "live"
                       /\ ext' = "live"
                       /\ pc' = "next_header"
                       /\ UNCHANGED <<exitCode, curlCleanups, extractResult>>
    /\ UNCHANGED <<curlInits, entry, success, nEntries, nBlocks, exFirstError, entryOps,
                   envVars, mainVars, fsVars, dlVars, histVars>>

\* lines 212-217: archive_read_next_header as the loop condition, the
\* entry's pathname replaced by dest_dir / pathname
ReadNextHeader ==
    /\ pc = "next_header"
    /\ \E rc \in ReadHeaderCodes :
          /\ rc = "ARCHIVE_OK" => nEntries < MaxEntries
          /\ IF rc = "ARCHIVE_OK"
             THEN /\ \E current_file \in EntryNames :
                        entry' = PathJoin(bin_dir, current_file)
                  /\ nEntries' = nEntries + 1
                  /\ nBlocks' = 0
                  /\ entryOps' = <<>>
                  /\ pc' = "write_header"
                  /\ UNCHANGED exFirstError
             ELSE /\ pc' = "close"
                  /\ exFirstError' = IF rc = "ARCHIVE_FATAL"
                                     THEN "read_header" ELSE exFirstError
                  /\ UNCHANGED <<entry, nEntries, nBlocks, entryOps>>
    /\ UNCHANGED <<exitCode, curlInits, curlCleanups, visited, a, ext, r, success,
                   extractResult, envVars, mainVars, fsVars, dlVars, histVars>>

\* lines 219-224: archive_write_header creates the entry on disk
WriteHeader ==
    /\ pc = "write_header"
    /\ \E rc \in WriteCodes :
          /\ r' = rc
          /\ entryOps' = Append(entryOps, "write_header")
          \* a warning still leaves the created file behind
          /\ files' = IF rc = "ARCHIVE_FATAL" THEN files ELSE files \cup {Resolve(entry)}
          /\ IF rc # "ARCHIVE_OK"
             THEN /\ success' = FALSE
                  /\ exFirstError' = "write_header"
                  /\ pc' = "close"
             ELSE /\ pc' = "read_data"
                  /\ UNCHANGED <<success, exFirstError>>
    /\ UNCHANGED <<exitCode, curlInits, curlCleanups, visited, a, ext, entry,
                   nEntries, nBlocks, extractResult, binDir,
                   envVars, mainVars, dlVars, histVars>>

\* line 231: archive_read_data_block as the inner loop condition
ReadDataBlock ==
    /\ pc = "read_data"
    /\ \E rc \in ReadDataCodes :
          /\ rc = "ARCHIVE_OK" => nBlocks < MaxBlocks
          /\ r' = rc
          /\ pc' = IF rc = "ARCHIVE_OK" THEN "write_data" ELSE "after_data"
          /\ exFirstError' = IF rc = "ARCHIVE_FATAL" THEN "read_data" ELSE exFirstError
    /\ UNCHANGED <<exitCode, curlInits, curlCleanups, visited, a, ext, entry, success,
                   nEntries, nBlocks, extractResult, entryOps,
                   envVars, mainVars, fsVars, dlVars, histVars>>

\* lines 232-236: archive_write_data_block; a failure leaves the inner loop
WriteDataBlock ==
    /\ pc = "write_data"
    /\ entryOps' = Append(entryOps, "write_data_block")
    /\ \E rc \in WriteDataCodes :
          IF rc = "ARCHIVE_OK"
          THEN /\ nBlocks' = nBlocks + 1
               /\ pc' = "read_data"
               /\ UNCHANGED <<success, exFirstError>>
          ELSE /\ success' = FALSE
               /\ exFirstError' = "write_data"
               /\ pc' = "after_data"
               /\ UNCHANGED nBlocks
    /\ UNCHANGED <<exitCode, curlInits, curlCleanups, visited, a, ext, entry, r,
                   nEntries, extractResult,
                   envVars, mainVars, fsVars, dlVars, histVars>>

\* Mutant of AfterData: after the last block the loop goes straight to the
\* next header, archive_write_finish_entry left out
AfterData_NoFinish ==
    /\ pc = "after_data"
    /\ IF r # "ARCHIVE_EOF"
       THEN success' = FALSE /\ pc' = "close"
       ELSE pc' = "next_header" /\ UNCHANGED success
    /\ UNCHANGED <<exitCode, curlInits, curlCleanups, visited, a, ext, entry, r,
                   nEntries, nBlocks, extractResult, exFirstError, entryOps,
                   envVars, mainVars, fsVars, dlVars, histVars>>

\* lines 239-243: after the inner loop, anything but EOF in r ends the extraction
AfterData ==
    /\ pc = "after_data"
    /\ IF r # "ARCHIVE_EOF"
       THEN success' = FALSE /\ pc' = "close"
       ELSE pc' = "finish_entry" /\ UNCHANGED success
    /\ UNCHANGED <<exitCode, curlInits, curlCleanups, visited, a, ext, entry, r,
                   nEntries, nBlocks, extractResult, exFirstError, entryOps,
                   envVars, mainVars, fsVars, dlVars, histVars>>

\* lines 245-250: archive_write_finish_entry
FinishEntry ==
    /\ pc = "finish_entry"
    /\ entryOps' = Append(entryOps, "finish_entry")
    /\ \E rc \in WriteCodes :
          /\ r' = rc
          /\ IF rc # "ARCHIVE_OK"
             THEN /\ success' = FALSE
                  /\ exFirstError' = "finish_entry"
                  /\ pc' = "close"
             ELSE /\ pc' = "next_header"
                  /\ UNCHANGED <<success, exFirstError>>
    /\ UNCHANGED <<exitCode, curlInits, curlCleanups, visited, a, ext, entry,
                   nEntries, nBlocks, extractResult,
                   envVars, mainVars, fsVars, dlVars, histVars>>

\* lines 253-258: close and free both handles, return success
ExtractClose ==
    /\ pc = "close"
    /\ a' = "freed"
    /\ ext' = "freed"
    /\ ReturnFromExtract(success)
    /\ UNCHANGED <<curlInits, visited, entry, r, success, nEntries, nBlocks,
                   exFirstError, entryOps, envVars, mainVars, fsVars, dlVars, histVars>>

\* ------------------------------------------------------ main(), the end
\* make_executable, lines 262-268; osOk: the operating system grants the chmod
make_executable(file_path, osOk) ==
    IF osMacro # "_WIN32" THEN exists(file_path) /\ osOk ELSE TRUE

\* lines 355-365: permissions on non-Windows, the success return
SetPermissions ==
    /\ pc = "SetPermissions"
    /\ visited' = visited \o <<"SetPermissions", "Done">>
    /\ \E osOk \in BOOLEAN :
          IF platform.os # "win32"
          THEN /\ chmodCalled' = (osMacro # "_WIN32")
               /\ warned' = ~make_executable(binary_path(platform), osOk)
          ELSE UNCHANGED <<chmodCalled, warned>>
    /\ Terminate(0)
    /\ UNCHANGED <<curlInits, runs, fsAtStart, acrossVars,
                   envVars, mainVars, fsVars, dlVars, exVars>>

\* The package manager invokes the hook again: a new process, the same disk.
NewRun ==
    /\ pc = "exited"
    /\ runs < MaxRuns
    /\ runs' = runs + 1
    /\ fsAtStart' = [binDir |-> binDir, files |-> files]
    /\ priorEnds' = priorEnds \cup {visited[Len(visited)]}
    /\ ResetRun
    /\ UNCHANGED <<envVars, fsVars, binaryAtFirstStart>>

Next ==
    \/ Start
    \/ ResolvePlatform
    \/ CheckExisting
    \/ BuildUrl
    \/ Download
    \/ CreateBinDirectory
    \/ ExtractOpen
    \/ ReadNextHeader
    \/ WriteHeader
    \/ ReadDataBlock
    \/ WriteDataBlock
    \/ AfterData
    \/ FinishEntry
    \/ ExtractClose
    \/ SetPermissions
    \/ NewRun

Spec == Init /\ [][Next]_vars

\* ------------------------------------------- get_package_version() alone
\* A Linux x64 run that has passed the gate and is about to build the URL,
\* with any package.json of up to MaxLines lines next to the script.
InitVersion ==
    /\ osMacro = "__linux__"
    /\ archMacro = "__x86_64__"
    /\ packageJson \in AllPackageFiles
    /\ FreshBuffer
    /\ binDir = "absent"
    /\ files = {}
    /\ runs = 1
    /\ fsAtStart = [binDir |-> binDir, files |-> files]
    /\ binaryAtFirstStart = FALSE
    /\ priorEnds = {}
    /\ pc = "BuildUrl"
    /\ platform = detect(osMacro, archMacro)
    /\ version = ""
    /\ url = ""
    /\ download_result = NoResult
    /\ ec = FALSE
    /\ exitCode = -1
    /\ curlInits = 1
    /\ curlCleanups = 0
    /\ curlEasy = "none"
    /\ res = "none"
    /\ response_code = 0
    /\ bufferLen = 0
    /\ a = "unset"
    /\ ext = "unset"
    /\ entry = <<>>
    /\ r = "none"
    /\ success = TRUE
    /\ nEntries = 0
    /\ nBlocks = 0
    /\ extractResult = "none"
    /\ entryOps = <<>>
    /\ visited = <<"ResolvePlatform", "CheckExisting">>
    /\ chmodCalled = FALSE
    /\ warned = FALSE
    /\ exFirstError = "none"

NextVersion == BuildUrl

SpecVersion == InitVersion /\ [][NextVersion]_vars

\* ------------------------------------------- DownloadBuffer::write_callback
\* line 131: 1024 * 1024
MiB == 1024 * 1024

\* libcurl hands the callback size = 1 and nmemb = the bytes of the chunk
ChunkSizes == {1}
ChunkLens == {0, 1, MiB - 1, MiB, MiB + 1, 2 * MiB}
\* what the bytes of a chunk are
ChunkBytes == {"A", "B"}

\* data.size(): the bytes of the chunks inserted
RECURSIVE DataSize(_)
DataSize(d) == IF d = <<>> THEN 0 ELSE d[1].len + DataSize(Tail(d))

\* data.insert(data.end(), bytes, bytes + total_size)
Insert(d, bytes, total_size) ==
    IF total_size = 0 THEN d ELSE Append(d, [bytes |-> bytes, len |-> total_size])

\* Mutant of write_callback: the progress line is printed on every chunk
write_callback_EveryChunk(contents, size, nmemb) ==
    LET total_size == size * nmemb
        current_mb == DataSize(Insert(data, contents, total_size)) \div MiB
    IN  /\ calls < MaxCalls
        /\ calls' = calls + 1
        /\ data' = Insert(data, contents, total_size)
        /\ progress' = Append(progress, current_mb)
        /\ last_reported_mb' = current_mb
        /\ returned' = total_size

\* lines 123-138: one call of the write callback during curl_easy_perform
write_callback(contents, size, nmemb) ==
    LET total_size == size * nmemb
        current_mb == DataSize(Insert(data, contents, total_size)) \div MiB
    IN  /\ calls < MaxCalls
        /\ calls' = calls + 1
        /\ data' = Insert(data, contents, total_size)
        /\ IF current_mb > last_reported_mb
           THEN /\ progress' = Append(progress, current_mb)
                /\ last_reported_mb' = current_mb
           ELSE UNCHANGED <<progress, last_reported_mb>>
        /\ returned' = total_size

\* curl_easy_perform (line 155) calling back with the next chunk
ReceiveChunk ==
    /\ pc = "Download"
    /\ \E contents \in ChunkBytes, size \in ChunkSizes, nmemb \in ChunkLens :
          write_callback(contents, size, nmemb)
    /\ UNCHANGED <<pc, exitCode, curlInits, curlCleanups, visited,
                   osMacro, archMacro, packageJson,
                   mainVars, fsVars, dlVars, exVars, histVars>>

\* A linux x64 run inside download_file, the buffer just constructed
InitCallback ==
    /\ osMacro = "__linux__"
    /\ archMacro = "__x86_64__"
    /\ packageJson = [open |-> TRUE, lines |-> <<LineVersionPretty>>]
    /\ FreshBuffer
    /\ binDir = "absent"
    /\ files = {}
    /\ runs = 1
    /\ fsAtStart = [binDir |-> binDir, files |-> files]
    /\ binaryAtFirstStart = FALSE
    /\ priorEnds = {}
    /\ pc = "Download"
    /\ platform = detect(osMacro, archMacro)
    /\ version = get_package_version(packageJson)
    /\ url = BuildUrlString(version, platform)
    /\ download_result = NoResult
    /\ ec = FALSE
    /\ exitCode = -1
    /\ curlInits = 1
    /\ curlCleanups = 0
    /\ curlEasy = "none"
    /\ res = "none"
    /\ response_code = 0
    /\ bufferLen = 0
    /\ a = "unset"
    /\ ext = "unset"
    /\ entry = <<>>
    /\ r = "none"
    /\ success = TRUE
    /\ nEntries = 0
    /\ nBlocks = 0
    /\ extractResult = "none"
    /\ entryOps = <<>>
    /\ visited = <<"ResolvePlatform", "CheckExisting", "BuildUrl">>
    /\ chmodCalled = FALSE
    /\ warned = FALSE
    /\ exFirstError = "none"

NextCallback == ReceiveChunk

SpecCallback == InitCallback /\ [][NextCallback]_vars

\* ================================================================ claims
Range(seq) == { seq[i] : i \in 1..Len(seq) }
IsPrefix(s, t) == Len(s) <= Len(t) /\ SubSeq(t, 1, Len(s)) = s
Last(seq) == seq[Len(seq)]
Entered(st) == st \in Range(visited)

\* The (os, arch) pairs of the table in section 4.1, in the code's names
SupportedPairs ==
    { <<"darwin", "x64">>, <<"darwin", "arm64">>, <<"linux", "x64">>, <<"win32", "x64">> }

\* The build is one the table lists.
BuildInTable == <<DetectOs(osMacro), DetectArch(archMacro)>> \in SupportedPairs

\* The target binary path of this build existed when the run started.
ExistedAtStart == binary_path(detect(osMacro, archMacro)) \in fsAtStart.files

\* The run has left the filesystem as it found it.
FsUntouched == binDir = fsAtStart.binDir /\ files = fsAtStart.files

\* The order of the pipeline states as section 4.4 documents it
DocumentedOrder ==
    <<"CheckExisting", "ResolvePlatform", "BuildUrl", "Download",
      "CreateBinDirectory", "Extract", "SetPermissions", "Done">>

\* The order in which main() goes through them
CodeOrder ==
    <<"ResolvePlatform", "CheckExisting", "BuildUrl", "Download",
      "CreateBinDirectory", "Extract", "SetPermissions", "Done">>

\* C1: a run started with the target binary present never downloads, never
\* creates the directory, never extracts, never calls chmod, leaves the
\* filesystem as it was, and when it has terminated the exit code is 0.
C1_ExistingBinaryIsNoOp ==
    ExistedAtStart =>
        /\ ~Entered("Download") /\ curlEasy = "none"
        /\ ~Entered("CreateBinDirectory")
        /\ ~Entered("Extract") /\ a = "unset" /\ ext = "unset"
        /\ ~chmodCalled
        /\ FsUntouched
        /\ pc = "exited" => exitCode = 0

\* C1 witness: a supported build found its binary and has returned.
C1_Witness ==
    /\ ExistedAtStart
    /\ pc = "exited"
    /\ visited = <<"ResolvePlatform", "CheckExisting">>

\* Extraction failed: extract_archive returned false, or a library call
\* failed while it processed an entry.
ExtractionFailed == extractResult = "false" \/ exFirstError # "none"

\* C2: a terminated run has exit code 1 exactly when directory creation
\* failed or the extraction failed; every other termination has exit code 0.
C2_ExitCodes ==
    pc = "exited" =>
        /\ exitCode \in {0, 1}
        /\ exitCode = 1 <=> (ec \/ ExtractionFailed)

\* C2, as far as main() goes: the exit code is 1 exactly when ec was set or
\* extract_archive returned false, also after a failed chmod.
C2_ByReturnValue ==
    pc = "exited" =>
        /\ exitCode \in {0, 1}
        /\ exitCode = 1 <=> (ec \/ extractResult = "false")

\* The transfer ended with a transport error or a final status outside 2xx.
DownloadFailed ==
    \/ res \notin {"none", "CURLE_OK"}
    \/ res = "CURLE_OK" /\ ~(response_code >= 200 /\ response_code <= 299)

\* C3: once the download has failed the run has exited with code 0, the
\* filesystem is as the run found it, and neither directory creation nor
\* extraction nor chmod happened.
C3_DownloadFailureIsSoft ==
    DownloadFailed =>
        /\ pc = "exited" /\ exitCode = 0
        /\ ~download_result.has_value
        /\ FsUntouched
        /\ ~Entered("CreateBinDirectory") /\ ~Entered("Extract")
        /\ a = "unset" /\ ext = "unset"
        /\ ~chmodCalled

\* C3 witness: a 404 after bytes were received, with no bin directory around.
C3_Witness ==
    /\ res = "CURLE_OK" /\ response_code = 404 /\ bufferLen > 0
    /\ binDir = "absent"
    /\ pc = "exited"

\* C4: every file a run has written lies inside the destination directory.
C4_NoWriteOutsideDest ==
    \A p \in files \ fsAtStart.files : IsWithin(p, bin_dir)

\* C5: when directory creation has failed the run has exited with code 1,
\* extract_archive was never entered and chmod was never called.
C5_MkdirFailureIsFatal ==
    ec =>
        /\ pc = "exited" /\ exitCode = 1
        /\ ~Entered("Extract") /\ a = "unset" /\ ext = "unset" /\ extractResult = "none"
        /\ ~chmodCalled
        /\ files = fsAtStart.files

\* C5 witness: a file sits where the bin directory should be.
C5_Witness == ec /\ binDir = "file" /\ download_result.has_value /\ pc = "exited"

\* C6: when a library call failed while an entry was processed,
\* extract_archive has returned false.
C6_EntryErrorReturnsFalse ==
    (exFirstError # "none" /\ extractResult # "none") => extractResult = "false"

\* C6, the parts about the disk: after the first failed call nothing more is
\* written, and extraction never removes a file.
C6_StopsAndKeepsFiles ==
    [][/\ exFirstError # "none" /\ pc' # "Start" => files' = files
       /\ pc' # "Start" => files \subseteq files']_vars

\* C7 as stated: the run enters the pipeline states in the documented order,
\* CheckExisting first, and a run that found its binary ends at CheckExisting.
C7_DocumentedOrder ==
    /\ IsPrefix(visited, DocumentedOrder)
    /\ (ExistedAtStart /\ pc = "exited") => Last(visited) = "CheckExisting"

\* C7 amended: the run enters the pipeline states in the order of main(),
\* ResolvePlatform first and without going back; an unsupported build ends at
\* ResolvePlatform whether or not the binary exists, and a supported build
\* that found its binary ends at CheckExisting.
C7_CodeOrder ==
    /\ IsPrefix(visited, CodeOrder)
    /\ pc = "exited" =>
          /\ ~BuildInTable => visited = <<"ResolvePlatform">>
          /\ (BuildInTable /\ ExistedAtStart)
                => visited = <<"ResolvePlatform", "CheckExisting">>

\* C7 witness: the binary exists, the build is unsupported, and the run ended
\* in the unsupported-platform branch.
C7_Witness ==
    /\ ExistedAtStart
    /\ pc = "exited"
    /\ visited = <<"ResolvePlatform">>

\* Position of a pipeline state in the history; 0 when it was not entered.
Pos(st) == IF Entered(st) THEN CHOOSE i \in 1..Len(visited) : visited[i] = st ELSE 0

\* The parts of C8 before the chmod: the download comes after the existence
\* check found nothing; the bin directory is created (or changed at all) only
\* with a download in hand; extraction starts only after directory creation
\* succeeded.
LifecycleBeforeChmod ==
    /\ Entered("Download") =>
          /\ Pos("CheckExisting") > 0 /\ Pos("CheckExisting") < Pos("Download")
          /\ ~ExistedAtStart
    /\ (Entered("CreateBinDirectory") \/ binDir # fsAtStart.binDir) =>
          /\ download_result.has_value
          /\ Pos("Download") > 0 /\ Pos("Download") < Pos("CreateBinDirectory")
    /\ (Entered("Extract") \/ a # "unset" \/ ext # "unset" \/ files # fsAtStart.files) =>
          /\ ~ec /\ binDir = "dir"
          /\ Pos("CreateBinDirectory") > 0 /\ Pos("CreateBinDirectory") < Pos("Extract")

\* C8: the lifecycle order above, and the executable bit is set (chmod was
\* called and succeeded) only after an extraction that succeeded, and never
\* on a Windows build.
C8_Lifecycle ==
    /\ LifecycleBeforeChmod
    /\ (chmodCalled /\ ~warned) =>
          /\ extractResult = "true" /\ ~ExtractionFailed
          /\ Pos("Extract") > 0 /\ Pos("Extract") < Pos("SetPermissions")
          /\ osMacro # "_WIN32"

\* C8, as far as main() goes: the same with "succeeded" read as
\* "extract_archive returned true".
C8_ByReturnValue ==
    /\ LifecycleBeforeChmod
    /\ chmodCalled =>
          /\ extractResult = "true"
          /\ Pos("Extract") > 0 /\ Pos("Extract") < Pos("SetPermissions")
          /\ osMacro # "_WIN32"

\* C9: once detect() has run, the platform carries the triple and extension of
\* the fixed table, the empty triple for every pair outside the table, and
\* is_supported is true exactly for the pairs of the table.
C9_PlatformTable ==
    platform # EmptyPlatform =>
        /\ (platform.os = "darwin" /\ platform.arch = "x64") =>
              platform.target_triple = "x86_64-apple-darwin" /\ platform.archive_ext = "tar.gz"
        /\ (platform.os = "darwin" /\ platform.arch = "arm64") =>
              platform.target_triple = "aarch64-apple-darwin" /\ platform.archive_ext = "tar.gz"
        /\ (platform.os = "linux" /\ platform.arch = "x64") =>
              platform.target_triple = "x86_64-unknown-linux-gnu" /\ platform.archive_ext = "tar.gz"
        /\ (platform.os = "win32" /\ platform.arch = "x64") =>
              platform.target_triple = "x86_64-pc-windows-msvc" /\ platform.archive_ext = "zip"
        /\ <<platform.os, platform.arch>> \notin SupportedPairs => platform.target_triple = ""
        /\ is_supported(platform) <=> platform.target_triple # ""
        /\ is_supported(platform) <=> <<platform.os, platform.arch>> \in SupportedPairs
        /\ (pc = "exited" /\ visited = <<"ResolvePlatform">>)
              <=> (pc = "exited" /\ <<platform.os, platform.arch>> \notin SupportedPairs)

\* C9 witness: the Windows x64 build resolved to its triple and went on.
C9_Witness ==
    /\ platform.os = "win32" /\ platform.arch = "x64"
    /\ platform.target_triple = "x86_64-pc-windows-msvc"
    /\ Entered("CheckExisting")

\* C10: once the platform is resolved as unsupported the run has exited with
\* code 0, with no URL built, no download, and the filesystem untouched.
C10_UnsupportedIsSoft ==
    (platform # EmptyPlatform /\ <<platform.os, platform.arch>> \notin SupportedPairs) =>
        /\ pc = "exited" /\ exitCode = 0
        /\ url = "" /\ version = "" /\ ~Entered("BuildUrl")
        /\ ~Entered("Download") /\ curlEasy = "none" /\ ~download_result.has_value
        /\ FsUntouched
        /\ ~Entered("CreateBinDirectory") /\ ~Entered("Extract") /\ ~chmodCalled

\* C10 witness: Linux on arm64, which the table does not list.
C10_Witness ==
    /\ platform.os = "linux" /\ platform.arch = "arm64"
    /\ pc = "exited"

\* C11: when the transfer ended with a transport error or a final status
\* outside 2xx, download_file returned no buffer, whatever the write callback
\* had stored.
C11_NoPartialBuffer ==
    DownloadFailed => download_result = NoResult

\* C11 witness: a timeout after bytes were stored.
C11_Witness ==
    /\ res = "CURLE_OPERATION_TIMEDOUT"
    /\ bufferLen > 0
    /\ download_result = NoResult

\* C12: the URL is the fixed host, org/repo, "v" and the version, the binary
\* name, the triple and the extension, each put in literally; for version
\* 0.5.0 on Linux x64 it is the documented URL.
C12_UrlFormat ==
    url # "" =>
        /\ url = "https://github.com/openSVM/vibedev/releases/download/v" \o version
                    \o "/claudev-" \o platform.target_triple \o "." \o platform.archive_ext
        /\ (version = "0.5.0" /\ platform.target_triple = "x86_64-unknown-linux-gnu"
                /\ platform.archive_ext = "tar.gz") =>
              url = "https://github.com/openSVM/vibedev/releases/download/v0.5.0/claudev-x86_64-unknown-linux-gnu.tar.gz"

\* C12 witness: the documented URL was built.
C12_Witness ==
    url = "https://github.com/openSVM/vibedev/releases/download/v0.5.0/claudev-x86_64-unknown-linux-gnu.tar.gz"

\* C13: a transfer that ended without transport error and with a final
\* status in 2xx returned the received buffer.
C13_Any2xxSucceeds ==
    (res = "CURLE_OK" /\ response_code >= 200 /\ response_code <= 299) =>
        download_result = [has_value |-> TRUE, size |-> bufferLen]

\* C13, for the one status the code accepts: a transfer without transport
\* error and with status 200 returned the received buffer.
C13_Status200Succeeds ==
    (res = "CURLE_OK" /\ response_code = 200) =>
        download_result = [has_value |-> TRUE, size |-> bufferLen]

\* C14: when extract_archive has returned, each handle it created has been
\* freed; when download_file has returned, its easy handle has been cleaned up.
C14_HandlesReleased ==
    /\ extractResult # "none" => (a \in {"null", "freed"} /\ ext \in {"null", "freed"})
    /\ Entered("Download") => curlEasy \in {"none", "cleaned"}

\* C14, the paths past handle creation: when both handles were created,
\* both have been freed when extract_archive has returned.
C14_ReleasedAfterCreation ==
    (extractResult # "none" /\ a # "null" /\ ext # "null") => (a = "freed" /\ ext = "freed")

\* C15: curl_global_init has run exactly once in every state past the start
\* of main, so before any download; curl_global_cleanup has run exactly once
\* when main has returned and not at all before, so after the last step.
C15_GlobalInitCleanup ==
    /\ curlInits = (IF pc = "Start" THEN 0 ELSE 1)
    /\ curlCleanups = (IF pc = "exited" THEN 1 ELSE 0)
    /\ Entered("Download") => curlInits = 1

\* C15 witness: a run with a download and an extraction has returned.
C15_Witness ==
    /\ pc = "exited" /\ Entered("Done")
    /\ curlInits = 1 /\ curlCleanups = 1

\* C16: a run that reached Done after an extraction in which no library call
\* failed has a file at the target binary path.
C16_DoneMeansInstalled ==
    (Entered("Done") /\ exFirstError = "none") => binary_path(platform) \in files

\* The run ended at the existing-binary gate.
SkippedAtGate == pc = "exited" /\ Last(visited) = "CheckExisting"

\* C17 as stated: with no binary before the first run, a run skips at the
\* gate only if an earlier run reached Done.
C17_SkipOnlyAfterDone ==
    (~binaryAtFirstStart /\ SkippedAtGate) => "Done" \in priorEnds

\* C17 amended: with no binary before the first run, a run skips at the gate
\* only if an earlier run got as far as extraction, whether that run reached
\* Done or ended with the fatal extraction failure.
C17_SkipOnlyAfterExtraction ==
    (~binaryAtFirstStart /\ SkippedAtGate) =>
        (priorEnds \cap {"Extract", "Done"} # {})

\* C17 witness: the only earlier run ended with the fatal extraction failure,
\* and this run skipped at the gate.
C17_Witness ==
    /\ ~binaryAtFirstStart
    /\ SkippedAtGate
    /\ priorEnds = {"Extract"}

\* The calls for one entry come as: write_header, then data blocks, then
\* finish_entry as the last one.
EntryOpsInOrder ==
    \A i \in 1..Len(entryOps) :
        /\ (entryOps[i] = "write_header") <=> (i = 1)
        /\ (entryOps[i] = "finish_entry") => (i = Len(entryOps))

\* C18: for each entry the header is written first, then all its data
\* blocks, then the entry is finished; the next header is read only when the
\* entry before it has been finished; finish_entry is called only after the
\* data of the entry ended with EOF; the entries are counted one by one.
C18_EntryOrder ==
    /\ EntryOpsInOrder
    /\ pc = "next_header" =>
          \/ nEntries = 0 /\ entryOps = <<>>
          \/ nEntries > 0 /\ Last(entryOps) = "finish_entry" /\ r = "ARCHIVE_OK"
    /\ pc \in {"read_data", "write_data", "after_data"} =>
          (entryOps # <<>> /\ Last(entryOps) # "finish_entry")
    /\ pc = "finish_entry" =>
          /\ r = "ARCHIVE_EOF"
          /\ Len(entryOps) = 1 + nBlocks
    /\ pc = "write_header" => (entryOps = <<>> /\ nEntries > 0)

\* C18 witness: the second entry is about to be finished after its header
\* and a data block.
C18_Witness ==
    /\ pc = "finish_entry"
    /\ nEntries = 2
    /\ entryOps = <<"write_header", "write_data_block">>

\* The lines of the file that contain the quoted key
HasKey(line) == FindSeq(line, KEY, 0) # NPOS
KeyLines == { i \in 1..Len(packageJson.lines) : HasKey(packageJson.lines[i]) }
FirstKeyLine == packageJson.lines[CHOOSE i \in KeyLines : \A j \in KeyLines : i <= j]

\* The value of the version field of a line: what stands between the first
\* two quotes after the key, if there are two.
ValueStart(line) == FindChar(line, Q, FindSeq(line, KEY, 0) + Len(KEY))
ValueEnd(line) == FindChar(line, Q, ValueStart(line) + 1)
HasQuotedValue(line) ==
    HasKey(line) /\ ValueStart(line) # NPOS /\ ValueEnd(line) # NPOS
QuotedValue(line) ==
    CharsToString(SubSeq(line, ValueStart(line) + 2, ValueEnd(line)))

\* C19: once the version is read, it is the fallback when the file could not
\* be opened or has no line with the key; otherwise it is the quoted value of
\* the version field on the first line with the key when that line has one,
\* and in every case the fallback or a value quoted after the key in the file.
C19_VersionFromFile ==
    Entered("BuildUrl") =>
        IF ~packageJson.open \/ KeyLines = {}
        THEN version = FALLBACK_VERSION
        ELSE /\ HasQuotedValue(FirstKeyLine) => version = QuotedValue(FirstKeyLine)
             /\ \/ version = FALLBACK_VERSION
                \/ \E i \in KeyLines :
                      /\ HasQuotedValue(packageJson.lines[i])
                      /\ version = QuotedValue(packageJson.lines[i])

\* C19, for files written one field per line: when the first line with the
\* key has its first colon right after the key and a quoted value after it,
\* the version is that value; a missing file or a file without the key gives
\* the fallback.
C19_OneFieldPerLine ==
    Entered("BuildUrl") =>
        IF ~packageJson.open \/ KeyLines = {}
        THEN version = FALLBACK_VERSION
        ELSE (/\ HasQuotedValue(FirstKeyLine)
              /\ FindChar(FirstKeyLine, ":", 0) = FindSeq(FirstKeyLine, KEY, 0) + Len(KEY))
                => version = QuotedValue(FirstKeyLine)

\* C20: the progress reporting is observational. Every write-callback call
\* appends exactly the received bytes to the buffer and returns the full
\* chunk size, prints a progress line exactly when the count of whole
\* megabytes in the buffer went up (the line carries the new count), and
\* leaves last_reported_mb at the buffer size divided by 1 MiB, rounded down.
C20_CallbackObservational ==
    [][ calls' = calls + 1 =>
          \E contents \in ChunkBytes, n \in ChunkLens :
             /\ data' = Insert(data, contents, n)
             /\ DataSize(data') = DataSize(data) + n
             /\ returned' = n
             /\ last_reported_mb' = DataSize(data') \div MiB
             /\ IF DataSize(data') \div MiB > DataSize(data) \div MiB
                THEN progress' = Append(progress, DataSize(data') \div MiB)
                ELSE progress' = progress ]_vars

\* C20 witness: a transfer whose callback ran to the bound, where one call
\* printed a line and another did not, and the last chunk was not empty.
C20_Witness ==
    /\ calls = MaxCalls
    /\ Len(progress) >= 1
    /\ Len(progress) < Len(data)
    /\ returned > 0
    /\ last_reported_mb = DataSize(data) \div MiB
    /\ last_reported_mb >= 2

====
